---- MODULE Spec2Model ----
(***************************************************************************)
(* shadowctl: a command-line supervisor for the sslocal proxy daemon.      *)
(*                                                                         *)
(* The model follows src/shadowctl/__init__.py.  Every CLI invocation is   *)
(* a process of its own (ShadowsocksControl() followed by one method);     *)
(* its position in the code is inv[i].pc.  The files of the runtime        *)
(* directory (shadowsocks.pid, shadowsocks.server), the config file and    *)
(* the set of live daemon processes are shared between the invocations.    *)
(* The daemon itself (sslocal) is the environment: it is started by the    *)
(* launch command, writes its own pid file, and may exit at any time.      *)
(***************************************************************************)
EXTENDS Integers, FiniteSets, Sequences, TLC

\* ---------------------------------------------------------------- bounds
NumInv == 2                     \* CLI invocations that may be in progress
MaxPid == 2                     \* process ids the OS hands out: 1..MaxPid
MaxKeys == 2                    \* members of the "servers" object in a config file

Procs == 1..NumInv
Pids  == 1..MaxPid

\* ------------------------------------------------------------- constants
NoFile   == 0                   \* the pid file does not exist
NoMarker == "<absent>"          \* the marker file does not exist
NoName   == "<none>"            \* no server argument / nothing printed

Servers == {"alpha", "beta"}    \* keys of config['servers']
Names   == Servers \cup {"gamma"}   \* what a user may type after `start`

Cmds == {"status", "list", "start", "stop", "connected"}

\* The member names of the "servers" object of config.json, in file order.
DefaultConfig == <<"alpha", "beta">>

VARIABLES
    configPresent,  \* {XDG_CONFIG_HOME}/shadowctl/config.json exists
    config,         \* member names of its "servers" object, in file order
    pidFile,        \* content of {XDG_RUNTIME_DIR}/shadowsocks.pid, or NoFile
    marker,         \* content of {XDG_RUNTIME_DIR}/shadowsocks.server, or NoMarker
    alive,          \* pids of the processes that exist
    pending,        \* daemons that have not written their pid file yet
    history,        \* the three history variables below are kept
    lastStart,      \* server of the last start that completed, NoName after a stop
    lastLaunch,     \* server of the last start whose launch returned 0
    lastSig,        \* pid the last stop sent SIGTERM to, 0 after a new launch
    inv             \* per invocation: position, arguments, locals, output

vars == <<configPresent, config, pidFile, marker, alive, pending,
          history, lastStart, lastLaunch, lastSig, inv>>

cfgVars == <<configPresent, config, history>>
fsVars == <<cfgVars, pidFile, marker>>
osVars == <<alive, pending>>
histVars == <<lastStart, lastLaunch, lastSig>>

\* An invocation that is not running.
Idle ==
    [pc |-> "idle", cmd |-> "none", server |-> NoName, json |-> FALSE,
     pid |-> 0, killpid |-> 0, conn |-> "unset",
     out |-> "none", name |-> NoName, outpid |-> 0, outlist |-> <<>>,
     code |-> 0,
     tmp |-> FALSE, tmpMade |-> FALSE, sawDead |-> FALSE,
     ret |-> "none", sig |-> 0]

\* Nothing has run yet: no daemon, an empty runtime directory.
Boot ==
    /\ configPresent \in BOOLEAN
    /\ config = DefaultConfig
    /\ pidFile = NoFile
    /\ marker = NoMarker
    /\ alive = {}
    /\ pending = {}
    /\ lastStart = NoName
    /\ lastLaunch = NoName
    /\ lastSig = 0
    /\ inv = [i \in Procs |-> Idle]

Init == Boot /\ history = TRUE

\* The same start, without the history of past invocations: the properties
\* of overlapping invocations speak of the invocations in progress only.
ConcInit == Boot /\ history = FALSE

\* ------------------------------------------------------------- helpers

Upd(i, r) == inv' = [inv EXCEPT ![i] = r]

\* The new value of a history variable.
Record(old, new) == IF history THEN new ELSE old

\* exit(): the site builtin raises SystemExit(None); the status is 0.
ExitBuiltin == 0

\* An exception nobody catches: traceback, status 1.
Uncaught == 1

\* An end of the invocation that leaves the temporary file behind.
Finish_leak(r, msg, status) ==
    [r EXCEPT !.pc = "done", !.out = msg, !.code = status]

\* The end of an invocation: what it printed and the exit status.
\* The NamedTemporaryFile(delete=True) is unlinked when the object is
\* finalized at interpreter exit.
Finish(r, msg, status) ==
    [r EXCEPT !.pc = "done", !.out = msg, !.code = status, !.tmp = FALSE]

\* A probe that answers for the pid file's existence only.
check_pid_exists(p) == TRUE

\* check_pid: os.kill(pid, 0) raises OSError when no such process exists.
check_pid(p) == p \in alive

\* ------------------------------------------------- main / load_config

Range(f) == {f[k] : k \in DOMAIN f}

\* json.loads of the "servers" object: a dict, whose keys are the member
\* names in the order of their first occurrence (a repeated member
\* replaces the value, the key keeps its place).
RECURSIVE json_loads(_)
json_loads(members) ==
    IF members = <<>> THEN <<>>
    ELSE LET front == json_loads(SubSeq(members, 1, Len(members) - 1))
             last  == members[Len(members)]
         IN  IF last \in Range(front) THEN front ELSE Append(front, last)

\* list that prints the keys but for the first.
list_keys_tail(servers) == IF servers = <<>> THEN <<>> ELSE Tail(servers)

\* list, line 139: list(self.servers.keys()); lines 143-144 print the same
\* names one per line.
list_keys(servers) == servers


\* main(): ShadowsocksControl() runs load_config, then the method named on
\* the command line is called.  `connected` is the property evaluated on
\* its own, as a caller of the class would.
Invoke(i, c, s, j) ==
    /\ inv[i].pc = "idle"
    /\ s = NoName <=> c # "start"
    /\ j => c \in {"status", "list"}
    /\ LET r == [Idle EXCEPT !.cmd = c, !.server = s, !.json = j]
       IN  IF ~configPresent
           THEN Upd(i, Finish(r, "Configuration missing", ExitBuiltin))
           ELSE CASE c = "status" -> Upd(i, [r EXCEPT !.pc = "status_has"])
                  [] c = "list"   ->
                       Upd(i, Finish([r EXCEPT !.outlist =
                                          list_keys(json_loads(config))],
                                     IF j THEN "[json list]"
                                     ELSE "Configured servers:", 0))
                  [] OTHER        -> Upd(i, [r EXCEPT !.pc = "conn_has"])
    /\ lastStart' = IF c = "stop" /\ configPresent
                    THEN Record(lastStart, NoName) ELSE lastStart
    /\ UNCHANGED <<fsVars, osVars, lastLaunch, lastSig>>

\* The process is gone; its slot can hold the next invocation.
Exit(i) ==
    /\ inv[i].pc = "done"
    /\ Upd(i, Idle)
    /\ UNCHANGED <<fsVars, osVars, histVars>>

\* ------------------------------------------------------------- connected

\* start that goes on to launch whatever connected answered.
ConnReturn_launch(r, value) ==
    LET q == [r EXCEPT !.conn = IF value THEN "true" ELSE "false"]
    IN  CASE r.cmd = "status" ->
               IF value THEN [q EXCEPT !.pc = "status_marker"]
               ELSE Finish(q, "Error! Stale PID file", ExitBuiltin)
          [] r.cmd = "start" -> [q EXCEPT !.pc = "start_tmp"]
          [] r.cmd = "stop" ->
               IF value THEN [q EXCEPT !.pc = "stop_pid"]
               ELSE Finish(q, "Not connected.", 0)
          [] OTHER ->
               Finish(q, IF value THEN "True" ELSE "False", 0)

\* stop that goes on to signal whatever connected answered.
ConnReturn_signal(r, value) ==
    LET q == [r EXCEPT !.conn = IF value THEN "true" ELSE "false"]
    IN  CASE r.cmd = "status" ->
               IF value THEN [q EXCEPT !.pc = "status_marker"]
               ELSE Finish(q, "Error! Stale PID file", ExitBuiltin)
          [] r.cmd = "start" ->
               IF value THEN Finish(q, "Already connected.", 0)
               ELSE [q EXCEPT !.pc = "start_tmp"]
          [] r.cmd = "stop" -> [q EXCEPT !.pc = "stop_pid"]
          [] OTHER ->
               Finish(q, IF value THEN "True" ELSE "False", 0)

\* What the caller does with the value of self.connected.
ConnReturn(r, value) ==
    LET q == [r EXCEPT !.conn = IF value THEN "true" ELSE "false"]
    IN  CASE r.cmd = "status" ->
               IF value THEN [q EXCEPT !.pc = "status_marker"]
               ELSE Finish(q, "Error! Stale PID file", ExitBuiltin)
          [] r.cmd = "start" ->
               IF value THEN Finish(q, "Already connected.", 0)
               ELSE [q EXCEPT !.pc = "start_tmp"]
          [] r.cmd = "stop" ->
               IF value THEN [q EXCEPT !.pc = "stop_pid"]
               ELSE Finish(q, "Not connected.", 0)
          [] OTHER ->
               Finish(q, IF value THEN "True" ELSE "False", 0)

\* connected, line 99: has_pid_file.
ConnHasPidFile(i) ==
    /\ inv[i].pc = "conn_has"
    /\ IF pidFile = NoFile
       THEN Upd(i, ConnReturn(inv[i], FALSE))
       ELSE Upd(i, [inv[i] EXCEPT !.pc = "conn_pid"])
    /\ UNCHANGED <<fsVars, osVars, histVars>>

\* connected, line 102: self.pid opens and parses the pid file.
ConnReadPid(i) ==
    /\ inv[i].pc = "conn_pid"
    /\ IF pidFile = NoFile
       THEN Upd(i, Finish(inv[i], "FileNotFoundError", Uncaught))
       ELSE Upd(i, [inv[i] EXCEPT !.pc = "conn_check", !.pid = pidFile])
    /\ UNCHANGED <<fsVars, osVars, histVars>>

\* connected, line 102: check_pid(self.pid).  sawDead records what was
\* true of the process at the probe, whatever the probe answered.
ConnCheckPid(i) ==
    /\ inv[i].pc = "conn_check"
    /\ LET r == [inv[i] EXCEPT !.sawDead = (inv[i].pid \notin alive)]
       IN  IF check_pid(inv[i].pid)
           THEN Upd(i, ConnReturn(r, TRUE))
           ELSE Upd(i, [r EXCEPT !.pc = "conn_remove"])
    /\ UNCHANGED <<fsVars, osVars, histVars>>

\* connected that reports the stale file and leaves it where it is.
ConnRemove_keep(i) ==
    /\ inv[i].pc = "conn_remove"
    /\ Upd(i, ConnReturn(inv[i], FALSE))
    /\ UNCHANGED <<fsVars, osVars, histVars>>

\* connected that clears the marker together with the stale pid file.
ConnRemove_clear(i) ==
    /\ inv[i].pc = "conn_remove"
    /\ IF pidFile = NoFile
       THEN /\ Upd(i, Finish(inv[i], "FileNotFoundError", Uncaught))
            /\ UNCHANGED <<pidFile, marker>>
       ELSE /\ pidFile' = NoFile
            /\ marker' = NoMarker
            /\ Upd(i, ConnReturn(inv[i], FALSE))
    /\ UNCHANGED <<cfgVars, osVars, histVars>>

\* connected, lines 105-108: the stale pid file is removed.
ConnRemove(i) ==
    /\ inv[i].pc = "conn_remove"
    /\ IF pidFile = NoFile
       THEN /\ Upd(i, Finish(inv[i], "FileNotFoundError", Uncaught))
            /\ UNCHANGED pidFile
       ELSE /\ pidFile' = NoFile
            /\ Upd(i, ConnReturn(inv[i], FALSE))
    /\ UNCHANGED <<cfgVars, marker, osVars, histVars>>

\* ---------------------------------------------------------------- status

\* status, lines 111-118: the existence test that precedes connected.
StatusHasPidFile(i) ==
    /\ inv[i].pc = "status_has"
    /\ IF pidFile = NoFile
       THEN Upd(i, Finish(inv[i],
                          IF inv[i].json THEN "{status: disconnected}"
                          ELSE "Shadowsocks not running.", 0))
       ELSE Upd(i, [inv[i] EXCEPT !.pc = "conn_has"])
    /\ UNCHANGED <<fsVars, osVars, histVars>>

\* status, lines 121-122: the marker file is read.
StatusReadMarker(i) ==
    /\ inv[i].pc = "status_marker"
    /\ IF marker = NoMarker
       THEN Upd(i, Finish(inv[i], "FileNotFoundError", Uncaught))
       ELSE Upd(i, [inv[i] EXCEPT !.pc = "status_pid", !.name = marker])
    /\ UNCHANGED <<fsVars, osVars, histVars>>

\* status, lines 123-132: self.pid is read again and the report printed.
StatusReport(i) ==
    /\ inv[i].pc = "status_pid"
    /\ IF pidFile = NoFile
       THEN Upd(i, Finish(inv[i], "FileNotFoundError", Uncaught))
       ELSE Upd(i, Finish([inv[i] EXCEPT !.outpid = pidFile],
                          IF inv[i].json THEN "{status: connected}"
                          ELSE "Shadowsocks running", 0))
    /\ UNCHANGED <<fsVars, osVars, histVars>>

\* ----------------------------------------------------------------- start

\* start, line 148: tempfile.NamedTemporaryFile('w', delete=True).
StartTempFile(i) ==
    /\ inv[i].pc = "start_tmp"
    /\ Upd(i, [inv[i] EXCEPT !.pc = "start_lookup", !.tmp = TRUE,
                             !.tmpMade = TRUE])
    /\ UNCHANGED <<fsVars, osVars, histVars>>

\* start, lines 152-153: self.servers[server]; KeyError for an unknown name.
StartLookup(i) ==
    /\ inv[i].pc = "start_lookup"
    /\ IF inv[i].server \in Range(json_loads(config))
       THEN Upd(i, [inv[i] EXCEPT !.pc = "start_launch"])
       ELSE Upd(i, Finish(inv[i], "KeyError", Uncaught))
    /\ UNCHANGED <<fsVars, osVars, histVars>>

\* A launch by subprocess.call: the return code comes back as a value and
\* start goes on with it.
StartLaunch_call(i) ==
    /\ inv[i].pc = "start_launch"
    /\ \/ /\ Upd(i, Finish([inv[i] EXCEPT !.ret = "notfound"],
                           "Error: shadowsocks binary not installed",
                           ExitBuiltin))
          /\ UNCHANGED <<pidFile, osVars, lastLaunch, lastSig>>
       \/ /\ Upd(i, [inv[i] EXCEPT !.pc = "start_close", !.ret = "nonzero"])
          /\ UNCHANGED <<pidFile, osVars, lastLaunch, lastSig>>
       \/ \E p \in Pids \ alive :
            /\ Upd(i, [inv[i] EXCEPT !.pc = "start_close", !.ret = "zero"])
            /\ alive' = alive \cup {p}
            /\ lastLaunch' = Record(lastLaunch, inv[i].server)
            /\ lastSig' = Record(lastSig, 0)
            /\ \/ pidFile' = p /\ UNCHANGED pending
               \/ pending' = pending \cup {p} /\ UNCHANGED pidFile
    /\ UNCHANGED <<cfgVars, marker, lastStart>>

\* start, lines 155-160: subprocess.check_call(sslocal ... -d start).
\* FileNotFoundError is caught and answered with exit(); a non-zero return
\* code is raised by check_call as CalledProcessError, which nobody
\* catches; on 0 a daemon exists, which has written its pid file already
\* or will do so later.
StartLaunch(i) ==
    /\ inv[i].pc = "start_launch"
    /\ \/ /\ Upd(i, Finish([inv[i] EXCEPT !.ret = "notfound"],
                           "Error: shadowsocks binary not installed",
                           ExitBuiltin))
          /\ UNCHANGED <<pidFile, osVars, lastLaunch, lastSig>>
       \/ /\ Upd(i, Finish([inv[i] EXCEPT !.ret = "nonzero"],
                           "CalledProcessError", Uncaught))
          /\ UNCHANGED <<pidFile, osVars, lastLaunch, lastSig>>
       \/ \E p \in Pids \ alive :
            /\ Upd(i, [inv[i] EXCEPT !.pc = "start_close", !.ret = "zero"])
            /\ alive' = alive \cup {p}
            /\ lastLaunch' = Record(lastLaunch, inv[i].server)
            /\ lastSig' = Record(lastSig, 0)
            /\ \/ pidFile' = p /\ UNCHANGED pending
               \/ pending' = pending \cup {p} /\ UNCHANGED pidFile
    /\ UNCHANGED <<cfgVars, marker, lastStart>>

\* start, line 162: config_file.close() unlinks the temporary file.
StartClose(i) ==
    /\ inv[i].pc = "start_close"
    /\ Upd(i, [inv[i] EXCEPT !.pc = "start_notify", !.tmp = FALSE])
    /\ UNCHANGED <<fsVars, osVars, histVars>>

\* notify, lines 62-67: nothing happens without notify2 ("absent"); with
\* it the call either shows the notification or raises (no session bus).
NotifyOutcomes == {"absent", "shown", "raised"}

\* start, lines 164-166: ret == 0, notify(...) and the message.
StartNotify(i) ==
    /\ inv[i].pc = "start_notify"
    /\ \E o \in NotifyOutcomes :
         IF o = "raised"
         THEN Upd(i, Finish(inv[i], "notify2 error", Uncaught))
         ELSE Upd(i, [inv[i] EXCEPT !.pc = "start_marker"])
    /\ UNCHANGED <<fsVars, osVars, histVars>>

\* start that reports success and leaves the marker file as it was.
StartWriteMarker_skip(i) ==
    /\ inv[i].pc = "start_marker"
    /\ lastStart' = Record(lastStart, inv[i].server)
    /\ Upd(i, Finish(inv[i], "Connected to", 0))
    /\ UNCHANGED <<fsVars, osVars, lastLaunch, lastSig>>

\* start, lines 167-169: the server name is written to the marker file.
StartWriteMarker(i) ==
    /\ inv[i].pc = "start_marker"
    /\ marker' = inv[i].server
    /\ lastStart' = Record(lastStart, inv[i].server)
    /\ Upd(i, Finish(inv[i], "Connected to", 0))
    /\ UNCHANGED <<cfgVars, pidFile, osVars, lastLaunch, lastSig>>

\* ------------------------------------------------------------------ stop

\* stop, line 185: self.pid; a missing file is an OSError, caught at 186.
StopReadPid(i) ==
    /\ inv[i].pc = "stop_pid"
    /\ IF pidFile = NoFile
       THEN Upd(i, Finish(inv[i], "Not Connected. Possible stale pid file.", 0))
       ELSE Upd(i, [inv[i] EXCEPT !.pc = "stop_kill", !.killpid = pidFile])
    /\ UNCHANGED <<fsVars, osVars, histVars>>

\* stop that deletes the pid file as soon as the signal is sent.
StopKill_unlink(i) ==
    /\ inv[i].pc = "stop_kill"
    /\ IF inv[i].killpid \in alive
       THEN /\ Upd(i, [inv[i] EXCEPT !.pc = "stop_notify",
                                     !.sig = inv[i].killpid,
                                     !.out = "Disconnected."])
            /\ lastSig' = Record(lastSig, inv[i].killpid)
            /\ pidFile' = NoFile
       ELSE /\ Upd(i, Finish(inv[i],
                             "Not Connected. Possible stale pid file.", 0))
            /\ UNCHANGED <<lastSig, pidFile>>
    /\ UNCHANGED <<cfgVars, marker, osVars, lastStart, lastLaunch>>

\* stop in which the OSError of os.kill is not caught.
StopKill_raise(i) ==
    /\ inv[i].pc = "stop_kill"
    /\ IF inv[i].killpid \in alive
       THEN /\ Upd(i, [inv[i] EXCEPT !.pc = "stop_notify",
                                     !.sig = inv[i].killpid,
                                     !.out = "Disconnected."])
            /\ lastSig' = Record(lastSig, inv[i].killpid)
       ELSE /\ Upd(i, Finish(inv[i], "ProcessLookupError", Uncaught))
            /\ UNCHANGED lastSig
    /\ UNCHANGED <<fsVars, osVars, lastStart, lastLaunch>>

\* stop, lines 185-189: os.kill(pid, 15) with the pid just read.
StopKill(i) ==
    /\ inv[i].pc = "stop_kill"
    /\ IF inv[i].killpid \in alive
       THEN /\ Upd(i, [inv[i] EXCEPT !.pc = "stop_notify",
                                     !.sig = inv[i].killpid,
                                     !.out = "Disconnected."])
            /\ lastSig' = Record(lastSig, inv[i].killpid)
       ELSE /\ Upd(i, Finish(inv[i],
                             "Not Connected. Possible stale pid file.", 0))
            /\ UNCHANGED lastSig
    /\ UNCHANGED <<fsVars, osVars, lastStart, lastLaunch>>

\* stop, line 190: notify('Disconnected.').
StopNotify(i) ==
    /\ inv[i].pc = "stop_notify"
    /\ \E o \in NotifyOutcomes :
         IF o = "raised"
         THEN Upd(i, Finish(inv[i], "notify2 error", Uncaught))
         ELSE Upd(i, Finish(inv[i], "Disconnected.", 0))
    /\ UNCHANGED <<fsVars, osVars, histVars>>

\* ---------------------------------------------------------- the daemon

\* sslocal -d start: the daemon writes its own pid into --pid-file.
DaemonWritePid(p) ==
    /\ p \in pending
    /\ pending' = pending \ {p}
    /\ pidFile' = p
    /\ UNCHANGED <<cfgVars, marker, alive, histVars, inv>>

\* The daemon exits: on SIGTERM, or on its own.  Its pid file stays.
DaemonExit(p) ==
    /\ p \in alive
    /\ alive' = alive \ {p}
    /\ pending' = pending \ {p}
    /\ UNCHANGED <<fsVars, histVars, inv>>

\* ---------------------------------------------------------- specifications

Step(i) ==
    \/ ConnHasPidFile(i)
    \/ ConnReadPid(i)
    \/ ConnCheckPid(i)
    \/ ConnRemove(i)
    \/ StatusHasPidFile(i)
    \/ StatusReadMarker(i)
    \/ StatusReport(i)
    \/ StartTempFile(i)
    \/ StartLookup(i)
    \/ StartLaunch(i)
    \/ StartClose(i)
    \/ StartNotify(i)
    \/ StartWriteMarker(i)
    \/ StopReadPid(i)
    \/ StopKill(i)
    \/ StopNotify(i)
    \/ Exit(i)

Daemon ==
    \E p \in Pids : DaemonWritePid(p) \/ DaemonExit(p)

AllIdle == \A k \in Procs : inv[k].pc = "idle"

\* One invocation at a time, as a user at a single shell runs them: the
\* next command is typed when the previous process has exited.
Next ==
    \/ \E i \in Procs, c \in Cmds, s \in Names \cup {NoName}, j \in BOOLEAN :
           AllIdle /\ Invoke(i, c, s, j)
    \/ \E i \in Procs : Step(i)
    \/ Daemon

Spec == Init /\ [][Next]_vars

\* Invocations of the CLI overlap freely.
ConcNext ==
    \/ \E i \in Procs, c \in Cmds \ {"connected"}, s \in Names \cup {NoName},
          j \in BOOLEAN :
           Invoke(i, c, s, j)
    \/ \E i \in Procs : Step(i)
    \/ Daemon

ConcSpec == ConcInit /\ [][ConcNext]_vars

\* list against every config file of up to MaxKeys members (a member name
\* may repeat) and every state of the runtime directory and the daemons.
ConfigFiles ==
    UNION {[1..n -> Names] : n \in 0..MaxKeys}

ListInit ==
    /\ configPresent = TRUE
    /\ config \in ConfigFiles
    /\ pidFile \in Pids \cup {NoFile}
    /\ marker \in Names \cup {NoMarker}
    /\ alive \in SUBSET Pids
    /\ pending \in SUBSET alive
    /\ history = FALSE
    /\ lastStart = NoName
    /\ lastLaunch = NoName
    /\ lastSig = 0
    /\ inv = [i \in Procs |-> Idle]

ListNext ==
    \/ \E i \in Procs, j \in BOOLEAN :
           AllIdle /\ Invoke(i, "list", NoName, j)
    \/ \E i \in Procs : Exit(i)
    \/ Daemon

ListSpec == ListInit /\ [][ListNext]_vars

\* ------------------------------------------------------------- properties

TypeOK ==
    /\ configPresent \in BOOLEAN
    /\ history \in BOOLEAN
    /\ pidFile \in Pids \cup {NoFile}
    /\ marker \in Servers \cup {NoMarker}
    /\ alive \subseteq Pids
    /\ pending \subseteq alive
    /\ lastStart \in Servers \cup {NoName}
    /\ lastLaunch \in Servers \cup {NoName}
    /\ lastSig \in Pids \cup {0}
    /\ Range(config) \subseteq Names /\ Len(config) <= MaxKeys
    /\ \A i \in Procs :
         /\ inv[i].code \in {0, 1}
         /\ inv[i].pid \in Pids \cup {0}
         /\ inv[i].killpid \in Pids \cup {0}
         /\ inv[i].conn \in {"unset", "true", "false"}
         /\ inv[i].ret \in {"none", "zero", "nonzero", "notfound"}

Crashed(i) == inv[i].pc = "done" /\ inv[i].code = Uncaught

SaysRunning(i) ==
    inv[i].out \in {"{status: connected}", "Shadowsocks running"}

\* C1.  Stale-state self-healing of connected().  An evaluation whose
\* probe finds the process named by the pid file dead returns false (an
\* error inside connected() would leave it without a value), and the step
\* that returns leaves the pid file removed; an evaluation that begins with no pid file (the second
\* evaluation right after) returns false, raises nothing and changes
\* neither the files nor the processes.
C1_StaleHealed ==
    /\ [](\A i \in Procs :
            inv[i].sawDead /\ inv[i].pc # "conn_remove"
                => inv[i].conn = "false")
    /\ [][\A i \in Procs :
            /\ inv[i].pc = "conn_remove" /\ inv'[i] # inv[i]
                 => pidFile' = NoFile /\ inv'[i].conn = "false"
            /\ inv[i].pc = "conn_has" /\ pidFile = NoFile /\ inv'[i] # inv[i]
                 => /\ inv'[i].conn = "false"
                    /\ ~(Crashed(i))'
                    /\ UNCHANGED <<fsVars, osVars>>]_vars

\* C1 witness: connected() evaluated on its own found the process dead,
\* answered False, and the pid file is gone.
C1_Witness ==
    \E i \in Procs :
        /\ inv[i].cmd = "connected" /\ inv[i].pc = "done"
        /\ inv[i].sawDead /\ inv[i].out = "False"
        /\ pidFile = NoFile

\* C2.  status, start and stop branch on the liveness check: an invocation
\* whose pid file named a dead process at the probe never reports
\* running, never answers "Already connected.", never signals, and a start
\* for a configured server goes on to invoke the proxy binary; a report of
\* running, "Already connected." and a signal each rest on connected()
\* having answered true.
C2_BranchOnLiveness ==
    \A i \in Procs :
        /\ inv[i].sawDead =>
             /\ ~SaysRunning(i)
             /\ inv[i].pc \notin {"status_marker", "status_pid"}
             /\ inv[i].out # "Already connected."
             /\ inv[i].sig = 0
             /\ inv[i].cmd = "start" /\ inv[i].server \in Servers
                  /\ inv[i].pc = "done" => inv[i].ret # "none"
        /\ SaysRunning(i) => inv[i].conn = "true"
        /\ inv[i].out = "Already connected." => inv[i].conn = "true"
        /\ inv[i].sig # 0 => inv[i].conn = "true"

\* C2 witness: a start that met a stale pid file and invoked the binary in
\* the same invocation.
C2_Witness ==
    \E i \in Procs :
        inv[i].cmd = "start" /\ inv[i].sawDead /\ inv[i].ret = "zero"

\* C3.  start while connected() is true is a no-op for every server name:
\* "Already connected.", exit status 0, no temporary file, the binary not
\* invoked, and no step of the invocation changes the pid file or the
\* marker.
C3_StartWhenConnected ==
    /\ [](\A i \in Procs :
            inv[i].cmd = "start" /\ inv[i].conn = "true" =>
                /\ inv[i].pc = "done"
                /\ inv[i].out = "Already connected."
                /\ inv[i].code = 0
                /\ ~inv[i].tmpMade /\ ~inv[i].tmp
                /\ inv[i].ret = "none")
    /\ [][\A i \in Procs :
            inv'[i].cmd = "start" /\ inv'[i].conn = "true"
                /\ inv'[i] # inv[i]
                => UNCHANGED <<pidFile, marker, osVars>>]_vars

\* C3 witness: start of a name that is not configured, while connected.
C3_Witness ==
    \E i \in Procs :
        /\ inv[i].cmd = "start" /\ inv[i].server \notin Servers
        /\ inv[i].conn = "true" /\ inv[i].out = "Already connected."
        /\ pidFile \in alive /\ marker # NoMarker
\* C4.  start of a name that is not configured, while not connected, fails
\* and writes nothing: no temporary config file, no pid file and no marker
\* file is created and the proxy binary is not invoked.
C4_UnknownServerNoWrites ==
    \A i \in Procs :
        inv[i].cmd = "start" /\ inv[i].server \notin Servers
            /\ inv[i].conn = "false" =>
                /\ ~inv[i].tmpMade
                /\ inv[i].ret = "none"
                /\ inv[i].pc = "done" => inv[i].code # 0

\* C5.  stop while connected() is false is a no-op: no signal is sent, it
\* reports "Not connected." and the invocation ends with exit status 0.
C5_StopWhenNotConnected ==
    \A i \in Procs :
        inv[i].cmd = "stop" /\ inv[i].conn = "false" =>
            /\ inv[i].pc = "done"
            /\ inv[i].out = "Not connected."
            /\ inv[i].code = 0
            /\ inv[i].sig = 0

\* C5 witness: a stop that met a stale pid file, with a marker left from
\* the session before.
C5_Witness ==
    \E i \in Procs :
        /\ inv[i].cmd = "stop" /\ inv[i].conn = "false" /\ inv[i].sawDead
        /\ inv[i].out = "Not connected."
        /\ marker # NoMarker

StatusJsonDone(i) ==
    inv[i].cmd = "status" /\ inv[i].json /\ inv[i].pc = "done"

\* C6 as stated.  After a start of s that completed, with no stop since,
\* the next status --json reports connected, the name s and the pid held
\* in the pid file.
C6_RoundTripAlways ==
    \A i \in Procs :
        StatusJsonDone(i) /\ lastStart # NoName =>
            /\ inv[i].out = "{status: connected}"
            /\ inv[i].name = lastStart
            /\ inv[i].outpid = pidFile

\* C6, amended.  After a start of s that completed, with no stop since,
\* the next status --json reports connected with the name s and the pid
\* it reads from the pid file whenever its connected() finds the pid file
\* present and the process alive; it reports disconnected when the daemon
\* has not written its pid file yet, and ends with the stale-pid-file
\* error when the daemon has exited.
C6_RoundTrip ==
    /\ [](\A i \in Procs :
            StatusJsonDone(i) /\ lastStart # NoName =>
                /\ inv[i].conn = "true" =>
                     /\ inv[i].out = "{status: connected}"
                     /\ inv[i].name = lastStart
                     /\ inv[i].outpid \in Pids
                /\ inv[i].conn = "false" =>
                     inv[i].sawDead /\ inv[i].out = "Error! Stale PID file"
                /\ inv[i].conn = "unset" =>
                     inv[i].out = "{status: disconnected}")
    /\ [][\A i \in Procs :
            inv[i].pc = "status_pid" /\ inv'[i].pc = "done"
                /\ lastStart # NoName
                => inv'[i].outpid = pidFile /\ pidFile # NoFile]_vars

\* C6 witness: the round trip itself.
C6_Witness ==
    \E i \in Procs :
        /\ StatusJsonDone(i) /\ lastStart = "beta"
        /\ inv[i].out = "{status: connected}"
        /\ inv[i].name = "beta" /\ inv[i].outpid = pidFile

\* C7.  Every fatal failure ends the invocation with a non-zero exit
\* status: the config file missing, the proxy binary not found, a launch
\* command that returns a non-zero code.
C7_FatalExitsNonZero ==
    \A i \in Procs :
        inv[i].pc = "done"
            /\ (inv[i].out = "Configuration missing"
                \/ inv[i].ret \in {"notfound", "nonzero"})
            => inv[i].code # 0

\* C8.  The marker is written only by a start whose launch returned 0: a
\* launch that returns non-zero or finds no binary ends the start with the
\* marker and the pid file as they were, and every change of the marker
\* is the write of a start whose launch returned 0.
C8_MarkerOnlyAfterLaunchOk ==
    /\ [](\A i \in Procs :
            inv[i].ret \in {"nonzero", "notfound"} => inv[i].pc = "done")
    /\ [][/\ \A i \in Procs :
               inv[i].ret = "none" /\ inv'[i].ret \in {"nonzero", "notfound"}
                   => UNCHANGED <<pidFile, marker>>
          /\ marker' # marker =>
               \E i \in Procs :
                   /\ inv[i].cmd = "start" /\ inv[i].ret = "zero"
                   /\ inv'[i] # inv[i]
                   /\ marker' = inv[i].server]_vars

\* C8 witness: a start whose launch failed, the marker of another server
\* still in place.
C8_Witness ==
    \E i \in Procs :
        /\ inv[i].cmd = "start" /\ inv[i].pc = "done"
        /\ inv[i].ret \in {"nonzero", "notfound"}
        /\ marker \in Servers /\ marker # inv[i].server

\* C9.  The pid file and the marker are deleted when staleness is detected
\* or stop succeeds: after a stale-pid cleanup, or after a stop that
\* reported "Disconnected.", the marker of the session before is gone.
C9_MarkerDeleted ==
    \A i \in Procs :
        inv[i].pc = "done"
            /\ (\/ inv[i].sawDead /\ inv[i].conn = "false"
                \/ inv[i].cmd = "stop" /\ inv[i].out = "Disconnected.")
            => marker = NoMarker

\* The check-then-act section of start: from connected() having answered
\* false to the end of the invocation.
InStart(i) ==
    inv[i].pc \in {"start_tmp", "start_lookup", "start_launch",
                   "start_close", "start_notify", "start_marker"}

\* C10.  The check-then-act sequence of start is mutually exclusive: of
\* two concurrent start invocations at most one is past the connected()
\* check at a time, so at most one invokes the proxy binary.
C10_StartMutex ==
    \A i, k \in Procs : i # k => ~(InStart(i) /\ InStart(k))
\* C11.  Notification is best-effort: whatever the notifier does, a start
\* whose launch returned 0 writes the marker and ends with status 0, and a
\* stop that sent its signal ends with status 0.
C11_NotifyBestEffort ==
    \A i \in Procs :
        inv[i].pc = "done" =>
            /\ inv[i].cmd = "start" /\ inv[i].ret = "zero"
                 => inv[i].out = "Connected to" /\ inv[i].code = 0
            /\ inv[i].cmd = "stop" /\ inv[i].sig # 0
                 => inv[i].out = "Disconnected." /\ inv[i].code = 0

\* C12.  status --json prints exactly one JSON object in every case:
\* {"status": "disconnected"} whenever connected() is false (no pid file,
\* or a pid file whose process is dead), and the connected object with the
\* marker's name and the pid file's pid whenever the process is alive.
C12_StatusJsonShape ==
    \A i \in Procs :
        StatusJsonDone(i) /\ configPresent =>
            /\ inv[i].out \in {"{status: disconnected}", "{status: connected}"}
            /\ inv[i].conn # "true" => inv[i].out = "{status: disconnected}"
            /\ inv[i].conn = "true" =>
                 /\ inv[i].out = "{status: connected}"
                 /\ inv[i].name \in Servers
                 /\ inv[i].outpid \in Pids
\* A step of invocation i while it runs (or begins) command c.
StepOf(i, c) ==
    inv'[i] # inv[i] /\ (inv[i].cmd = c \/ inv'[i].cmd = c)

\* C13.  status and list are read-side operations.  No step of list
\* changes any file or process; a step of status changes nothing but the
\* pid file, which it removes in the stale cleanup of connected() and
\* nowhere else; neither writes or deletes the marker, launches or
\* signals.  The effect is stated without the json flag: it is the same
\* for both output shapes.
C13_ReadSide ==
    /\ [](\A i \in Procs :
            inv[i].cmd \in {"status", "list"} =>
                /\ inv[i].sig = 0 /\ inv[i].killpid = 0
                /\ inv[i].ret = "none"
                /\ ~inv[i].tmpMade)
    /\ [][\A i \in Procs :
            /\ StepOf(i, "list") => UNCHANGED <<fsVars, osVars>>
            /\ StepOf(i, "status") =>
                 /\ UNCHANGED <<cfgVars, marker, osVars>>
                 /\ pidFile' = IF inv[i].pc = "conn_remove" /\ inv[i].sawDead
                               THEN NoFile ELSE pidFile]_vars

\* C13 witness: a status that removed a stale pid file, the marker still
\* in place.
C13_Witness ==
    \E i \in Procs :
        /\ inv[i].cmd = "status" /\ inv[i].pc = "done"
        /\ inv[i].sawDead /\ inv[i].conn = "false"
        /\ pidFile = NoFile /\ marker # NoMarker
ListJsonDone(i) ==
    inv[i].cmd = "list" /\ inv[i].json /\ inv[i].pc = "done"

\* C15.  list --json prints exactly the keys of the servers mapping of the
\* config file: every member name of the file and nothing else, each
\* once, whatever the pid file, the marker and the processes are.
C15_ListKeys ==
    \A i \in Procs :
        ListJsonDone(i) =>
            /\ Range(inv[i].outlist) = Range(config)
            /\ Len(inv[i].outlist) = Cardinality(Range(config))

\* C15 witness: a config file that repeats a member name, listed while a
\* daemon runs.
C15_Witness ==
    \E i \in Procs :
        /\ ListJsonDone(i)
        /\ Len(config) = 2 /\ config[1] = config[2]
        /\ inv[i].outlist = <<config[1]>>
        /\ pidFile \in alive /\ marker # NoMarker
\* C16.  Lazy reclaim after stop.  A stop that found the daemon alive
\* signals the pid it read from the pid file and none of its steps touches
\* the pid file; when the signalled process has exited, an invocation
\* whose connected() reads that pid gets false, the pid file is removed as
\* it returns, and a start is not answered "Already connected.".
C16_LazyReclaim ==
    /\ [](\A i \in Procs :
            /\ inv[i].sig # 0 =>
                 inv[i].cmd = "stop" /\ inv[i].sig = inv[i].killpid
            /\ lastSig # 0 /\ inv[i].pid = lastSig /\ inv[i].sawDead
                 /\ inv[i].pc # "conn_remove"
                 => /\ inv[i].conn = "false"
                    /\ inv[i].out # "Already connected.")
    /\ [][\A i \in Procs :
            /\ inv[i].cmd = "stop" /\ inv[i].conn = "true"
                 /\ inv'[i] # inv[i]
                 => UNCHANGED <<pidFile, marker, osVars>>
            /\ inv[i].pc = "conn_remove" /\ inv[i].pid = lastSig
                 /\ inv'[i] # inv[i]
                 => pidFile' = NoFile]_vars

\* C16 witness: after a stop signalled the daemon and it exited, a start
\* has removed the pid file and stands before the launch.
C16_Witness ==
    \E i \in Procs :
        /\ inv[i].cmd = "start" /\ inv[i].pc = "start_launch"
        /\ lastSig # 0 /\ inv[i].pid = lastSig /\ inv[i].sawDead
        /\ inv[i].conn = "false"
        /\ pidFile = NoFile

\* C17.  Losing the race in stop is not fatal.  A stop whose connected()
\* was true and whose signal found no process (or whose second read found
\* no pid file) reports "possible stale pid file", not "Disconnected.",
\* ends with status 0 without notifying, and has changed no file.
C17_StopRaceLost ==
    /\ [](\A i \in Procs :
            inv[i].cmd = "stop" /\ inv[i].conn = "true"
                /\ inv[i].pc = "done" /\ inv[i].sig = 0
                => /\ inv[i].out = "Not Connected. Possible stale pid file."
                   /\ inv[i].code = 0)
    /\ [][\A i \in Procs :
            inv[i].cmd = "stop" /\ inv[i].conn = "true"
                /\ inv'[i].sig = 0 /\ inv'[i] # inv[i]
                => /\ UNCHANGED <<fsVars, osVars>>
                   /\ inv'[i].pc # "stop_notify"]_vars

\* C17 witness: the pid file disappeared between the liveness check and
\* the read that precedes the signal (another invocation removed it after
\* the daemon had exited).
C17_Witness ==
    \E i \in Procs :
        /\ inv[i].cmd = "stop" /\ inv[i].conn = "true" /\ inv[i].pc = "done"
        /\ inv[i].killpid = 0 /\ inv[i].pid \notin alive
        /\ inv[i].out = "Not Connected. Possible stale pid file."
        /\ inv[i].code = 0

\* The other way to lose the race: the process exited between the
\* liveness check and the signal, the pid file still naming it.
C17_ProcessExited ==
    \E i \in Procs :
        /\ inv[i].cmd = "stop" /\ inv[i].conn = "true" /\ inv[i].pc = "done"
        /\ inv[i].killpid # 0 /\ inv[i].killpid \notin alive
        /\ inv[i].out = "Not Connected. Possible stale pid file."
        /\ inv[i].code = 0 /\ pidFile = inv[i].killpid
\* C18.  Concurrent stale cleanup is safe: when invocations evaluate
\* connected() on the same stale pid file at the same time, each of them
\* gets false and none ends in an unhandled error inside connected().
C18_ConcurrentCleanupSafe ==
    \A i \in Procs :
        /\ inv[i].sawDead /\ inv[i].pc = "done" => inv[i].conn = "false"
        /\ ~(inv[i].pc = "done" /\ inv[i].conn = "unset"
               /\ inv[i].out = "FileNotFoundError")

\* C19.  stop signals only the process it checked: the pid that receives
\* SIGTERM is the pid whose liveness the connected() of the same stop
\* confirmed.
C19_SignalsCheckedPid ==
    \A i \in Procs :
        inv[i].sig # 0 => inv[i].sig = inv[i].pid

\* C20.  The reported server name is current: a status that reports
\* connected names the server of the most recent start whose launch
\* returned 0, with the marker file in place, and no status that found
\* the pid file live fails for want of the marker.
C20_NameCurrent ==
    \A i \in Procs :
        inv[i].cmd = "status" /\ inv[i].pc = "done" =>
            /\ SaysRunning(i) =>
                 inv[i].name = lastLaunch /\ marker # NoMarker
            /\ inv[i].conn = "true" => inv[i].name # NoName
====
